---- MODULE Spec2Model ----
(***************************************************************************)
(* Model of the vote-casting core of the county e-voting backend:          *)
(* the document store (settings, voters, candidates, votes), the public    *)
(* handlers checkEligibility and submitVote, and the administrative        *)
(* handlers that touch the same collections.  Every await of a handler is  *)
(* a separate step, so that requests of different clients interleave at    *)
(* exactly the points where the event loop can switch between them.        *)
(***************************************************************************)
EXTENDS Integers, Sequences, FiniteSets, TLC

\* ------------------------------------------------------------------ bounds
\* number of settings and registration operations in one run
MaxAdminOps == 1

\* the client connections; each sends one request, and the two requests run
\* one after the other or interleaved
Clients == {"c1", "c2"}

\* ------------------------------------------------------- reference data
requiredPositions == <<"Governor", "Women Representative", "MP", "MCA">>

\* position enum of the Vote and Candidate schemas
PositionEnum == {"Governor", "Women Representative", "MP", "MCA"}

wardsByConstituency ==
  [c \in {"Kirinyaga Central", "Kirinyaga East", "Mwea", "Gichugu", "Ndia"} |->
     CASE c = "Kirinyaga Central" -> {"Kiamuturi", "Mutithi", "Kangai", "Thiba", "Wamumu"}
       [] c = "Kirinyaga East"    -> {"Kanyeki-Inoi", "Kerugoya", "Inoi", "Mutonguni", "Kiamaciri"}
       [] c = "Mwea"              -> {"Thiba", "Kangai", "Mutithi", "Wamumu", "Mwea"}
       [] c = "Gichugu"           -> {"Ngariama", "Kanyekini", "Murinduko", "Gathigiriri", "Tebere"}
       [] c = "Ndia"              -> {"Baragwi", "Njukiini", "Gichugu", "Mukure", "Kiaritha"}]

validateWard(constituency, ward) ==
  IF constituency \in DOMAIN wardsByConstituency
    THEN ward \in wardsByConstituency[constituency]
    ELSE FALSE

NULL == "null"

\* ------------------------------------------------------------ the inputs
\* voting numbers a client may present: two that can be issued, one never issued
VotingNumbers == {"VN1", "VN2"}
UnknownNumber == "VN0"

\* areas a registration request names: a ward of Mwea constituency, and a
\* ward that does not belong to it
RegistrationAreas ==
  { [constituency |-> "Mwea", ward |-> "Mwea"],
    [constituency |-> "Mwea", ward |-> "Kiamuturi"] }

Choice(p, c) == [position |-> p, candidateId |-> c]

\* a full ballot for a voter of Mwea / Thiba
BallotThiba ==
  << Choice("Governor", "g1"), Choice("Women Representative", "w1"),
     Choice("MP", "m1"), Choice("MCA", "a1") >>

\* a full ballot for a voter of Mwea / Mwea (its MCA choice is of another
\* ward for a voter of Thiba)
BallotMwea ==
  << Choice("Governor", "g1"), Choice("Women Representative", "w1"),
     Choice("MP", "m1"), Choice("MCA", "a2") >>

BallotMissing ==
  << Choice("Governor", "g1"), Choice("Women Representative", "w1"),
     Choice("MP", "m1") >>

BallotDuplicate ==
  << Choice("Governor", "g1"), Choice("Governor", "g1"),
     Choice("Women Representative", "w1"), Choice("MP", "m1"),
     Choice("MCA", "a1") >>

BallotExtra ==
  << Choice("Governor", "g1"), Choice("Women Representative", "w1"),
     Choice("MP", "m1"), Choice("MCA", "a1"), Choice("Senator", "g1") >>

BallotEmpty == << >>

\* candidates an administrator asks to delete (one of them does not exist)
DeleteTargets == {"g1", "a1", "g0"}

Ballots ==
  { BallotThiba, BallotMwea, BallotMissing, BallotDuplicate, BallotExtra,
    BallotEmpty }

\* the ballots of two submissions that race for the same voting number
RaceBallots == { BallotThiba, BallotMwea }

\* ------------------------------------------------------------- the state
VARIABLES
  settings,     \* SystemSetting collection: key -> value, for the records that exist
  voters,       \* Voter collection: votingNumber -> record
  candidates,   \* Candidate collection: _id -> record
  votes,        \* Vote collection: a set of records
  client,       \* per client: the request it runs and the position in its handler
  adminOps      \* number of settings and registration operations so far

vars == << settings, voters, candidates, votes, client, adminOps >>

store == << settings, voters, candidates, votes >>


\* Candidate schema (defaults: county Kirinyaga, voteCount 0, isActive true)
Candidate(pos, party, constituency, ward) ==
  [ position |-> pos, politicalParty |-> party, county |-> "Kirinyaga",
    constituency |-> constituency, ward |-> ward,
    voteCount |-> 0, isActive |-> TRUE ]

\* Voter schema (defaults: county Kirinyaga, hasVoted false, isActive true)
Voter(constituency, ward) ==
  [ county |-> "Kirinyaga", constituency |-> constituency, ward |-> ward,
    hasVoted |-> FALSE, isActive |-> TRUE ]

\* Vote schema; rid is the identity of the inserting request (the record's _id)
Vote(vn, pos, cid, voter, rid) ==
  [ votingNumber |-> vn, position |-> pos, candidateId |-> cid,
    county |-> voter.county, constituency |-> voter.constituency,
    ward |-> voter.ward, rid |-> rid ]

Idle ==
  [ kind |-> "idle", pc |-> "done", vn |-> "", ballot |-> << >>,
    task |-> << >>, result |-> "none", incd |-> {}, rid |-> "",
    validationErrors |-> FALSE, overlapped |-> FALSE,
    target |-> "", hadVotes |-> FALSE,
    data |-> [p \in {} |-> {}],
    voter |-> [constituency |-> NULL, ward |-> NULL], deadline |-> NULL,
    epoch |-> 0, body |-> << >>, doc |-> << >>,
    email |-> "none", audit |-> << >>, emitted |-> << >> ]

SeedCandidates ==
  [ c \in {"g1", "w1", "m1", "a1", "a2"} |->
      CASE c = "g1" -> Candidate("Governor", "P", NULL, NULL)
        [] c = "w1" -> Candidate("Women Representative", "P", NULL, NULL)
        [] c = "m1" -> Candidate("MP", "P", "Mwea", NULL)
        [] c = "a1" -> Candidate("MCA", "P", "Mwea", "Thiba")
        [] c = "a2" -> Candidate("MCA", "P", "Mwea", "Mwea") ]

\* the settings collection before the initialisation script has run, after
\* it, and with the portal opened
InitialSettings ==
  { [ k \in {} |-> FALSE ],
    [ k \in {"voting_portal_open", "voting_deadline"} |->
        IF k = "voting_portal_open" THEN FALSE ELSE "" ],
    [ k \in {"voting_portal_open", "voting_deadline"} |->
        IF k = "voting_portal_open" THEN TRUE ELSE "" ] }

Init ==
  /\ settings \in InitialSettings
  /\ adminOps = 0
  /\ voters = [ v \in {"VN1"} |-> Voter("Mwea", "Thiba") ]
  /\ candidates = SeedCandidates
  /\ votes = {}
  /\ client = [ c \in Clients |-> Idle ]

\* ---------------------------------------------------------------- helpers
\* findOneAndUpdate(filter, update, options): updates the record that matches
\* the key; inserts it only with upsert
findOneAndUpdate(s, key, value, upsert) ==
  IF key \in DOMAIN s \/ upsert
    THEN [ k \in DOMAIN s \cup {key} |-> IF k = key THEN value ELSE s[k] ]
    ELSE s

\* a portal check that takes an absent setting for an open portal
PortalClosedIfPresent(s) ==
  "voting_portal_open" \in DOMAIN s /\ ~s["voting_portal_open"]

\* !portalStatus || !portalStatus.value
PortalClosed(s) ==
  "voting_portal_open" \notin DOMAIN s \/ ~s["voting_portal_open"]

\* Voter.findOne({ votingNumber, isActive: true })
FindActiveVoter(vs, vn) == vn \in DOMAIN vs /\ vs[vn].isActive

Range(f) == { f[i] : i \in DOMAIN f }

votedPositions(ballot) == [ i \in DOMAIN ballot |-> ballot[i].position ]

\* uniquePositions.length !== votedPositions.length
HasDuplicatePositions(ballot) ==
  Cardinality(Range(votedPositions(ballot))) # Len(ballot)

\* the first required position that votedPositions does not include
MissingPositions(ballot) ==
  { i \in DOMAIN requiredPositions :
      requiredPositions[i] \notin Range(votedPositions(ballot)) }

\* the express-validator chain of the submit route: it records its errors in
\* the request and passes on; nothing reads them
validateVote(ballot) ==
  \/ Len(ballot) < 4
  \/ \E i \in DOMAIN requiredPositions :
       requiredPositions[i] \notin Range(votedPositions(ballot))
  \/ Cardinality(Range(votedPositions(ballot))) # Len(ballot)

\* an eligibility test that leaves the county aside
isCandidateEligibleAnyCounty(candidate, voter, position) ==
  CASE position = "Governor" -> candidate.position = "Governor"
    [] position = "Women Representative" ->
         candidate.position = "Women Representative"
    [] position = "MP" ->
         candidate.position = "MP" /\ candidate.constituency = voter.constituency
    [] position = "MCA" ->
         /\ candidate.position = "MCA"
         /\ candidate.constituency = voter.constituency
         /\ candidate.ward = voter.ward
    [] OTHER -> FALSE

isCandidateEligible(candidate, voter, position) ==
  CASE position = "Governor" ->
         candidate.position = "Governor" /\ candidate.county = voter.county
    [] position = "Women Representative" ->
         candidate.position = "Women Representative" /\ candidate.county = voter.county
    [] position = "MP" ->
         candidate.position = "MP" /\ candidate.constituency = voter.constituency
    [] position = "MCA" ->
         /\ candidate.position = "MCA"
         /\ candidate.constituency = voter.constituency
         /\ candidate.ward = voter.ward
    [] OTHER -> FALSE

\* the four Candidate.find queries of getEligibleCandidates
EligibleQuery(cs, voter, position) ==
  CASE position = "Governor" ->
         { c \in DOMAIN cs : cs[c].position = "Governor"
                             /\ cs[c].county = "Kirinyaga" /\ cs[c].isActive }
    [] position = "Women Representative" ->
         { c \in DOMAIN cs : cs[c].position = "Women Representative"
                             /\ cs[c].county = "Kirinyaga" /\ cs[c].isActive }
    [] position = "MP" ->
         { c \in DOMAIN cs : cs[c].position = "MP"
                             /\ cs[c].constituency = voter.constituency
                             /\ cs[c].isActive }
    [] position = "MCA" ->
         { c \in DOMAIN cs : cs[c].position = "MCA"
                             /\ cs[c].constituency = voter.constituency
                             /\ cs[c].ward = voter.ward /\ cs[c].isActive }

\* a votes collection without the unique index
NoVoteIndex(vs, vn, position) == FALSE

\* the unique index { votingNumber: 1, position: 1 } of the votes collection
ViolatesVoteIndex(vs, vn, position) ==
  \E v \in vs : v.votingNumber = vn /\ v.position = position

Pending == {"find", "create", "inc"}

\* a request is in flight until its handler has answered and none of the
\* promises it started is still running
InFlight(c) ==
  \/ client[c].pc # "done"
  \/ \E i \in DOMAIN client[c].task : client[c].task[i] \in Pending

CanStart(c) == client[c].kind = "idle"

Respond(c, result) ==
  client' = [client EXCEPT ![c].pc = "done", ![c].result = result]

\* ------------------------------------------------------------ submitVote
\* POST /submit arrives: validateVote runs, then the handler up to its
\* first await (the empty-votes check)
SubmitReceive(c, vn, ballot) ==
  /\ CanStart(c)
  /\ client' =
       [client EXCEPT ![c] =
          [ Idle EXCEPT !.kind = "submit", !.vn = vn, !.ballot = ballot,
                        !.rid = c,
                        !.validationErrors = validateVote(ballot),
                        !.overlapped =
                           \E d \in Clients \ {c} :
                              client[d].kind = "submit" /\ InFlight(d),
                        !.pc = IF Len(ballot) = 0 THEN "done" ELSE "portal",
                        !.result = IF Len(ballot) = 0 THEN "NoVotes" ELSE "none" ],
        ![CHOOSE d \in Clients : d # c].overlapped =
            IF client[CHOOSE d \in Clients : d # c].kind = "submit"
               /\ InFlight(CHOOSE d \in Clients : d # c)
              THEN TRUE ELSE @ ]
  /\ UNCHANGED << store, adminOps >>

\* SystemSetting.findOne({ key: 'voting_portal_open' }) answers
SubmitPortal(c) ==
  /\ client[c].kind = "submit" /\ client[c].pc = "portal"
  /\ IF PortalClosed(settings)
       THEN Respond(c, "PortalClosed")
       ELSE client' = [client EXCEPT ![c].pc = "voter"]
  /\ UNCHANGED << store, adminOps >>

\* a voter lookup that does not look at hasVoted
SubmitVoterAnyFlag(c) ==
  /\ client[c].kind = "submit" /\ client[c].pc = "voter"
  /\ LET vn == client[c].vn
         ballot == client[c].ballot
     IN  IF ~FindActiveVoter(voters, vn) THEN Respond(c, "InvalidCredential")
         ELSE IF HasDuplicatePositions(ballot) THEN Respond(c, "DuplicatePosition")
         ELSE IF MissingPositions(ballot) # {} THEN Respond(c, "MissingPosition")
         ELSE client' = [client EXCEPT ![c].pc = "tasks",
                                       ![c].task = [i \in DOMAIN ballot |-> "find"]]
  /\ UNCHANGED << store, adminOps >>

\* Voter.findOne answers; the structural checks follow without an await and
\* votes.map starts one promise per choice
SubmitVoter(c) ==
  /\ client[c].kind = "submit" /\ client[c].pc = "voter"
  /\ LET vn == client[c].vn
         ballot == client[c].ballot
     IN  IF ~FindActiveVoter(voters, vn) THEN Respond(c, "InvalidCredential")
         ELSE IF voters[vn].hasVoted THEN Respond(c, "AlreadyVoted")
         ELSE IF HasDuplicatePositions(ballot) THEN Respond(c, "DuplicatePosition")
         ELSE IF MissingPositions(ballot) # {} THEN Respond(c, "MissingPosition")
         ELSE client' = [client EXCEPT ![c].pc = "tasks",
                                       ![c].task = [i \in DOMAIN ballot |-> "find"]]
  /\ UNCHANGED << store, adminOps >>

\* a promise of votes.map throws: Promise.all rejects on the first one and the
\* handler answers through next(error); the other promises keep running
TaskThrows(c, i, error) ==
  IF client[c].pc = "tasks"
    THEN [client EXCEPT ![c].task[i] = error, ![c].pc = "done", ![c].result = error]
    ELSE [client EXCEPT ![c].task[i] = error]

\* Candidate.findById answers for choice i; validation of the candidate
TaskFind(c, i) ==
  /\ client[c].kind = "submit"
  /\ i \in DOMAIN client[c].task /\ client[c].task[i] = "find"
  /\ LET choice == client[c].ballot[i]
         cid == choice.candidateId
     IN  client' =
           IF cid \notin DOMAIN candidates \/ ~candidates[cid].isActive
             THEN TaskThrows(c, i, "InvalidCandidate")
           ELSE IF ~isCandidateEligible(candidates[cid], voters[client[c].vn],
                                        choice.position)
             THEN TaskThrows(c, i, "IneligibleCandidate")
           ELSE [client EXCEPT ![c].task[i] = "create"]
  /\ UNCHANGED << store, adminOps >>

\* Vote.create is applied by the store for choice i
TaskCreate(c, i) ==
  /\ client[c].kind = "submit"
  /\ i \in DOMAIN client[c].task /\ client[c].task[i] = "create"
  /\ LET choice == client[c].ballot[i]
         vn == client[c].vn
     IN  IF ViolatesVoteIndex(votes, vn, choice.position)
           THEN /\ client' = TaskThrows(c, i, "DuplicateKey")
                /\ UNCHANGED votes
           ELSE /\ votes' = votes \cup
                      { Vote(vn, choice.position, choice.candidateId,
                             voters[vn], client[c].rid) }
                /\ client' = [client EXCEPT ![c].task[i] = "inc"]
  /\ UNCHANGED << settings, voters, candidates, adminOps >>

\* Promise.all resolves once every promise is fulfilled
AllFulfilled(task) == \A j \in DOMAIN task : task[j] = "done"

\* Candidate.findByIdAndUpdate(candidateId, { $inc: { voteCount: 1 } }) is
\* applied for choice i; it matches nothing when the candidate is gone
TaskInc(c, i) ==
  /\ client[c].kind = "submit"
  /\ i \in DOMAIN client[c].task /\ client[c].task[i] = "inc"
  /\ LET cid == client[c].ballot[i].candidateId
         task == [client[c].task EXCEPT ![i] = "done"]
         matched == cid \in DOMAIN candidates
     IN  /\ candidates' =
              IF matched
                THEN [candidates EXCEPT ![cid].voteCount = @ + 1]
                ELSE candidates
         /\ client' =
              [client EXCEPT ![c].task = task,
                             ![c].incd = IF matched THEN @ \cup {i} ELSE @,
                             ![c].pc = IF @ = "tasks" /\ AllFulfilled(task)
                                         THEN "save" ELSE @]
  /\ UNCHANGED << settings, voters, votes, adminOps >>

\* voter.hasVoted = true; voter.save()
SubmitSave(c) ==
  /\ client[c].kind = "submit" /\ client[c].pc = "save"
  /\ voters' = [voters EXCEPT ![client[c].vn].hasVoted = TRUE]
  /\ client' = [client EXCEPT ![c].pc = "email"]
  /\ UNCHANGED << settings, candidates, votes, adminOps >>

\* a confirmation email whose failure is thrown to the handler
SubmitEmailThrows(c, sent) ==
  /\ client[c].kind = "submit" /\ client[c].pc = "email"
  /\ client' = IF sent
                 THEN [client EXCEPT ![c].pc = "audit", ![c].email = "sent"]
                 ELSE [client EXCEPT ![c].pc = "done", ![c].email = "failed",
                                     ![c].result = "EmailError"]
  /\ UNCHANGED << store, adminOps >>

\* sendVoteConfirmationEmail answers true (sent) or false (it catches the
\* error of the transport); the handler does not read the answer
SubmitEmail(c, sent) ==
  /\ client[c].kind = "submit" /\ client[c].pc = "email"
  /\ client' = [client EXCEPT ![c].pc = "audit",
                              ![c].email = IF sent THEN "sent" ELSE "failed"]
  /\ UNCHANGED << store, adminOps >>

\* the details of the VOTE entry handed to auditLogger.log
AuditDetails(voter, ballot) ==
  [ constituency |-> voter.constituency, ward |-> voter.ward,
    positions |-> votedPositions(ballot) ]

\* the payload of the voteUpdate event (its timestamp left aside)
VoteUpdate(voter) ==
  [ constituency |-> voter.constituency, ward |-> voter.ward ]

\* an audit entry that also records the voting number
SubmitAuditWithNumber(c, logged) ==
  /\ client[c].kind = "submit" /\ client[c].pc = "audit"
  /\ LET voter == voters[client[c].vn]
         entry == [ adminId |-> NULL, action |-> "VOTE", entity |-> "Vote",
                    entityId |-> NULL,
                    details |-> [ constituency |-> voter.constituency,
                                  ward |-> voter.ward,
                                  positions |-> votedPositions(client[c].ballot),
                                  votingNumber |-> client[c].vn ] ]
     IN  client' =
           [client EXCEPT ![c].audit = IF logged THEN << entry >> ELSE << >>,
                          ![c].emitted = << VoteUpdate(voter) >>,
                          ![c].pc = "done", ![c].result = "Success"]
  /\ UNCHANGED << store, adminOps >>

\* auditLogger.log answers: the entry is created, or the error of
\* AuditLog.create is caught and printed; then req.io.emit('voteUpdate')
\* and the success response follow without an await
SubmitAudit(c, logged) ==
  /\ client[c].kind = "submit" /\ client[c].pc = "audit"
  /\ LET voter == voters[client[c].vn]
         entry == [ adminId |-> NULL, action |-> "VOTE", entity |-> "Vote",
                    entityId |-> NULL,
                    details |-> AuditDetails(voter, client[c].ballot) ]
     IN  client' =
           [client EXCEPT ![c].audit = IF logged THEN << entry >> ELSE << >>,
                          ![c].emitted = << VoteUpdate(voter) >>,
                          ![c].pc = "done", ![c].result = "Success"]
  /\ UNCHANGED << store, adminOps >>

\* the store is unavailable once the inserts are done: voter.save() rejects,
\* the handler answers through next(error) and hasVoted stays as it was
SaveStoreFault(c) ==
  /\ client[c].kind = "submit" /\ client[c].pc = "save"
  /\ Respond(c, "StoreError")
  /\ UNCHANGED << store, adminOps >>

\* the steps of submitVote up to voter.save()
SubmitCommit(c) ==
  \/ SubmitPortal(c)
  \/ SubmitVoter(c)
  \/ \E i \in DOMAIN client[c].task : TaskFind(c, i)
  \/ \E i \in DOMAIN client[c].task : TaskCreate(c, i)
  \/ \E i \in DOMAIN client[c].task : TaskInc(c, i)
  \/ SubmitSave(c)

\* the steps of submitVote while the mail transport and the audit log work
SubmitStep(c) ==
  \/ SubmitCommit(c)
  \/ SubmitEmail(c, TRUE)
  \/ SubmitAudit(c, TRUE)

\* ------------------------------------------------------ checkEligibility
\* GET /eligibility/:votingNumber arrives; epoch notes how many settings and
\* registration operations preceded the request
EligibilityReceive(c, vn) ==
  /\ CanStart(c)
  /\ client' = [client EXCEPT ![c] =
                  [ Idle EXCEPT !.kind = "eligibility", !.vn = vn, !.pc = "portal",
                                !.epoch = adminOps ]]
  /\ UNCHANGED << store, adminOps >>

\* SystemSetting.findOne({ key: 'voting_portal_open' }) answers
EligibilityPortal(c) ==
  /\ client[c].kind = "eligibility" /\ client[c].pc = "portal"
  /\ IF PortalClosed(settings)
       THEN Respond(c, "PortalClosed")
       ELSE client' = [client EXCEPT ![c].pc = "voter"]
  /\ UNCHANGED << store, adminOps >>

\* Voter.findOne answers
EligibilityVoter(c) ==
  /\ client[c].kind = "eligibility" /\ client[c].pc = "voter"
  /\ LET vn == client[c].vn
     IN  IF ~FindActiveVoter(voters, vn) THEN Respond(c, "InvalidCredential")
         ELSE IF voters[vn].hasVoted THEN Respond(c, "AlreadyVoted")
         ELSE client' = [client EXCEPT ![c].pc = "find1",
                           ![c].voter = [ constituency |-> voters[vn].constituency,
                                          ward |-> voters[vn].ward ]]
  /\ UNCHANGED << store, adminOps >>

\* one Candidate.find of getEligibleCandidates answers (k-th position)
EligibilityFind(c, k) ==
  /\ client[c].kind = "eligibility"
  /\ k \in DOMAIN requiredPositions
  /\ client[c].pc = "find" \o ToString(k)
  /\ LET position == requiredPositions[k]
         found == EligibleQuery(candidates, client[c].voter, position)
     IN  client' =
           [client EXCEPT
              ![c].data = [p \in DOMAIN @ \cup {position} |->
                              IF p = position THEN found ELSE @[p]],
              ![c].pc = IF k < Len(requiredPositions)
                          THEN "find" \o ToString(k + 1) ELSE "deadline"]
  /\ UNCHANGED << store, adminOps >>

\* SystemSetting.findOne({ key: 'voting_deadline' })
getVotingDeadline(s) ==
  IF "voting_deadline" \in DOMAIN s THEN s["voting_deadline"] ELSE NULL

\* a deadline lookup that creates the setting when it is absent
EligibilityDeadlineUpsert(c) ==
  /\ client[c].kind = "eligibility" /\ client[c].pc = "deadline"
  /\ settings' = findOneAndUpdate(settings, "voting_deadline",
                                  getVotingDeadline(settings), TRUE)
  /\ client' = [client EXCEPT ![c].pc = "done", ![c].result = "Eligible",
                              ![c].deadline = getVotingDeadline(settings)]
  /\ UNCHANGED << voters, candidates, votes, adminOps >>

\* getVotingDeadline answers and the success response is sent
EligibilityDeadline(c) ==
  /\ client[c].kind = "eligibility" /\ client[c].pc = "deadline"
  /\ client' = [client EXCEPT ![c].pc = "done", ![c].result = "Eligible",
                                              ![c].deadline = getVotingDeadline(settings)]
  /\ UNCHANGED << store, adminOps >>

EligibilityStep(c) ==
  \/ EligibilityPortal(c)
  \/ EligibilityVoter(c)
  \/ \E k \in DOMAIN requiredPositions : EligibilityFind(c, k)
  \/ EligibilityDeadline(c)

\* ------------------------------------------------------- deleteCandidate
\* DELETE /candidates/:id arrives
DeleteReceive(c, cid) ==
  /\ CanStart(c)
  /\ client' = [client EXCEPT ![c] =
                  [ Idle EXCEPT !.kind = "delete", !.target = cid, !.pc = "find" ]]
  /\ UNCHANGED << store, adminOps >>

\* Candidate.findById answers; the document read decides soft or hard delete
DeleteFind(c) ==
  /\ client[c].kind = "delete" /\ client[c].pc = "find"
  /\ IF client[c].target \notin DOMAIN candidates
       THEN Respond(c, "NotFound")
       ELSE client' = [client EXCEPT ![c].pc = "write",
                         ![c].hadVotes = candidates[client[c].target].voteCount > 0]
  /\ UNCHANGED << store, adminOps >>

\* a delete that also removes the Vote records naming the candidate
DeleteWriteCascade(c) ==
  /\ client[c].kind = "delete" /\ client[c].pc = "write"
  /\ LET cid == client[c].target
     IN  /\ votes' = { v \in votes : v.candidateId # cid }
         /\ IF client[c].hadVotes
              THEN /\ candidates' = [candidates EXCEPT ![cid].isActive = FALSE]
                   /\ Respond(c, "Deactivated")
              ELSE /\ candidates' = [d \in DOMAIN candidates \ {cid} |-> candidates[d]]
                   /\ Respond(c, "Deleted")
  /\ UNCHANGED << settings, voters, adminOps >>

\* candidate.save() with isActive = false, or candidate.deleteOne()
DeleteWrite(c) ==
  /\ client[c].kind = "delete" /\ client[c].pc = "write"
  /\ LET cid == client[c].target
     IN  IF client[c].hadVotes
           THEN /\ candidates' = [candidates EXCEPT ![cid].isActive = FALSE]
                /\ Respond(c, "Deactivated")
           ELSE /\ candidates' = [d \in DOMAIN candidates \ {cid} |-> candidates[d]]
                /\ Respond(c, "Deleted")
  /\ UNCHANGED << settings, voters, votes, adminOps >>

DeleteStep(c) == DeleteFind(c) \/ DeleteWrite(c)

\* ----------------------------------------------- settings and registration
\* the initialisation script creates each default setting that is absent
Administer == adminOps < MaxAdminOps /\ adminOps' = adminOps + 1

initializeSystem ==
  /\ settings' =
       [ k \in DOMAIN settings \cup {"voting_portal_open", "voting_deadline"} |->
           IF k \in DOMAIN settings THEN settings[k]
           ELSE IF k = "voting_portal_open" THEN FALSE ELSE "" ]
  /\ Administer
  /\ UNCHANGED << voters, candidates, votes, client >>

openVotingPortal ==
  /\ settings' = findOneAndUpdate(settings, "voting_portal_open", TRUE, FALSE)
  /\ Administer
  /\ UNCHANGED << voters, candidates, votes, client >>

closeVotingPortal ==
  /\ settings' = findOneAndUpdate(settings, "voting_portal_open", FALSE, FALSE)
  /\ Administer
  /\ UNCHANGED << voters, candidates, votes, client >>

\* PUT /admin/settings with { voting_portal_open: value }
updateSystemSettings(value) ==
  /\ settings' = findOneAndUpdate(settings, "voting_portal_open", value, TRUE)
  /\ Administer
  /\ UNCHANGED << voters, candidates, votes, client >>

\* a registration that replaces the record of a voting number already issued
CreateVoterAgain(vn, area) ==
  /\ validateWard(area.constituency, area.ward)
  /\ voters' = [ v \in DOMAIN voters \cup {vn} |->
                   IF v = vn THEN Voter(area.constituency, area.ward)
                   ELSE voters[v] ]
  /\ Administer
  /\ UNCHANGED << settings, candidates, votes, client >>

\* Voter.create of a registration: a new record with the schema defaults and
\* a voting number generated by the pre-save hook
CreateVoter(vn, area) ==
  /\ vn \notin DOMAIN voters
  /\ validateWard(area.constituency, area.ward)
  /\ voters' = [ v \in DOMAIN voters \cup {vn} |->
                   IF v = vn THEN Voter(area.constituency, area.ward)
                   ELSE voters[v] ]
  /\ Administer
  /\ UNCHANGED << settings, candidates, votes, client >>

registerVoter(vn, area) == CreateVoter(vn, area)

selfRegisterVoter(vn, area) == CreateVoter(vn, area)

Next ==
  \/ \E vn \in {"VN1", UnknownNumber}, b \in Ballots : SubmitReceive("c1", vn, b)
  \/ \E c \in Clients : SubmitStep(c)
  \/ \E c \in Clients : SaveStoreFault(c)
  \/ \E c \in Clients, vn \in VotingNumbers \cup {UnknownNumber} :
       EligibilityReceive(c, vn)
  \/ \E c \in Clients : EligibilityStep(c)
  \/ \E c \in Clients, cid \in DeleteTargets : DeleteReceive(c, cid)
  \/ \E c \in Clients : DeleteStep(c)
  \/ initializeSystem
  \/ openVotingPortal
  \/ closeVotingPortal
  \/ \E value \in BOOLEAN : updateSystemSettings(value)
  \/ \E vn \in VotingNumbers, area \in RegistrationAreas : registerVoter(vn, area)
  \/ \E vn \in VotingNumbers, area \in RegistrationAreas : selfRegisterVoter(vn, area)

Spec == Init /\ [][Next]_vars

\* ------------------------------------------ two submissions, one credential
\* both clients submit for VN1 while the portal is open
InitRace ==
  /\ settings = [ k \in {"voting_portal_open", "voting_deadline"} |->
                    IF k = "voting_portal_open" THEN TRUE ELSE "" ]
  /\ adminOps = 0
  /\ voters = [ v \in {"VN1"} |-> Voter("Mwea", "Thiba") ]
  /\ candidates = SeedCandidates
  /\ votes = {}
  /\ client = [ c \in Clients |-> Idle ]

NextRace ==
  \/ \E b \in RaceBallots : SubmitReceive("c1", "VN1", b)
  \/ SubmitReceive("c2", "VN1", BallotThiba)
  \/ \E c \in Clients : SubmitStep(c)

SpecRace == InitRace /\ [][NextRace]_vars

\* ------------------------------------------------------------ properties
VotesOf(vn) == { v \in votes : v.votingNumber = vn }

InsertedBy(c) == { v \in votes : v.rid = c }

Submits(c) == client[c].kind = "submit"

Settled(c) == ~InFlight(c)

\* C1: of two submitVote requests that use the same voting number and run
\* concurrently, at most one commits; once both have finished, the store
\* holds no Vote record inserted by a request that did not commit.
C1_LoserLeavesNoVote ==
  \A c \in Clients : \A d \in Clients \ {c} :
    ( /\ Submits(c) /\ Submits(d)
      /\ client[c].vn = client[d].vn
      /\ client[c].overlapped /\ client[d].overlapped
      /\ Settled(c) /\ Settled(d) )
    => /\ ~(client[c].result = "Success" /\ client[d].result = "Success")
       /\ client[c].result # "Success" => InsertedBy(c) = {}

\* C2: no two Vote records have the same (votingNumber, position).
C2_VoteIndexUnique ==
  \A v \in votes : \A w \in votes :
    (v.votingNumber = w.votingNumber /\ v.position = w.position) => v = w

\* C2 witness: the store has refused an insert of a racing submission
C2_Witness ==
  \E c \in Clients : \E i \in DOMAIN client[c].task :
    /\ client[c].task[i] = "DuplicateKey"
    /\ \E v \in votes : /\ v.votingNumber = client[c].vn
                        /\ v.position = client[c].ballot[i].position
                        /\ v.rid # c

\* what a committed ballot of request c looks like in the store
Committed(c) ==
  /\ Cardinality(VotesOf(client[c].vn)) = 4
  /\ { v.position : v \in VotesOf(client[c].vn) } = PositionEnum
  /\ voters[client[c].vn].hasVoted
  /\ \A i \in DOMAIN client[c].ballot :
       /\ i \in client[c].incd
       /\ client[c].ballot[i].candidateId \in DOMAIN candidates

\* C3: at the moment submitVote answers success, the voting number has
\* exactly the four Vote records of the required positions, the voter's
\* hasVoted is true, and the submission has raised the voteCount of each
\* candidate it chose by one.
C3_SuccessIsCommitted ==
  [][ \A c \in Clients :
        (client[c].result # "Success" /\ client'[c].result = "Success")
        => Committed(c)' ]_vars

\* C4: a submission with a choice whose candidate is absent, inactive or not
\* eligible is rejected and writes nothing: no Vote record, no voteCount
\* increment, hasVoted still false.
C4_BadChoiceWritesNothing ==
  \A c \in Clients :
    ( /\ Submits(c)
      /\ \E i \in DOMAIN client[c].task :
           client[c].task[i] \in {"InvalidCandidate", "IneligibleCandidate"} )
    => /\ client[c].result # "Success"
       /\ InsertedBy(c) = {}
       /\ client[c].incd = {}
       /\ ~voters[client[c].vn].hasVoted

\* C5: once a submission that failed on a store operation has finished and
\* nothing is in flight, every voting number has no Vote record and
\* hasVoted false, or four Vote records and hasVoted true.
C5_NoPartialBallot ==
  ( /\ \A c \in Clients : Settled(c)
    /\ \E c \in Clients : Submits(c) /\ client[c].result = "StoreError" )
  => \A vn \in DOMAIN voters :
       \/ VotesOf(vn) = {} /\ ~voters[vn].hasVoted
       \/ Cardinality(VotesOf(vn)) = 4 /\ voters[vn].hasVoted

\* C6: a submission with two choices for one position is answered
\* DuplicatePosition, one that omits a required position is answered
\* MissingPosition, and neither writes a Vote record, a voteCount or hasVoted.
C6_StructuralRejection ==
  \A c \in Clients :
    (Submits(c) /\ client[c].pc = "done" /\ client[c].ballot # << >>)
    => LET b == client[c].ballot
           duplicate == \E i \in DOMAIN b : \E j \in DOMAIN b :
                          i # j /\ b[i].position = b[j].position
           missing == \E p \in PositionEnum :
                          \A i \in DOMAIN b : b[i].position # p
       IN  /\ duplicate => client[c].result = "DuplicatePosition"
           /\ (missing /\ ~duplicate) => client[c].result = "MissingPosition"
           /\ (missing \/ duplicate) =>
                /\ InsertedBy(c) = {} /\ client[c].incd = {}
                /\ client[c].vn \in DOMAIN voters => ~voters[client[c].vn].hasVoted

\* C7: a submission with the four required positions and a choice for
\* another position is rejected, inserts no Vote record and increments no
\* voteCount.
C7_ExtraPositionWritesNothing ==
  \A c \in Clients :
    ( /\ Submits(c)
      /\ \A p \in PositionEnum :
           \E i \in DOMAIN client[c].ballot : client[c].ballot[i].position = p
      /\ \E i \in DOMAIN client[c].ballot :
           client[c].ballot[i].position \notin PositionEnum )
    => /\ client[c].result # "Success"
       /\ InsertedBy(c) = {}
       /\ client[c].incd = {}

Checks(c) == client[c].kind = "eligibility"

NoData == [ p \in {} |-> {} ]

\* the active candidates of a position in the area of the voter vn, from the
\* records of the store
ActiveInArea(vn, position) ==
  { x \in DOMAIN candidates :
      /\ candidates[x].isActive
      /\ candidates[x].position = position
      /\ candidates[x].county = voters[vn].county
      /\ position \in {"MP", "MCA"} =>
           candidates[x].constituency = voters[vn].constituency
      /\ position = "MCA" => candidates[x].ward = voters[vn].ward }

\* C8: checkEligibility reads the portal setting first and answers
\* PortalClosed, with no voter or candidate data, when it is false or
\* absent; otherwise it reads the voter and answers InvalidCredential when no
\* active voter has the number, AlreadyVoted when hasVoted is true; otherwise
\* it answers the active candidates of each position in the voter's area.
C8_EligibilityOrder ==
  [][ \A c \in Clients :
        /\ (~Checks(c) /\ client'[c].kind = "eligibility")
             => client'[c].pc = "portal" /\ client'[c].result = "none"
        /\ (Checks(c) /\ client[c].result = "none" /\ client'[c] # client[c])
        => LET vn == client[c].vn
               closed == \/ "voting_portal_open" \notin DOMAIN settings
                         \/ settings["voting_portal_open"] = FALSE
               known == vn \in DOMAIN voters /\ voters[vn].isActive
           IN  /\ client[c].pc = "portal"
                    => /\ client'[c].result = IF closed THEN "PortalClosed" ELSE "none"
                       /\ client'[c].data = NoData
                       /\ client'[c].voter.ward = NULL
                       /\ client'[c].deadline = NULL
               /\ client'[c].result = "PortalClosed" => client[c].pc = "portal"
               /\ client[c].pc = "voter"
                    => client'[c].result =
                         IF ~known THEN "InvalidCredential"
                         ELSE IF voters[vn].hasVoted THEN "AlreadyVoted"
                         ELSE "none"
               /\ client'[c].result \in {"InvalidCredential", "AlreadyVoted"}
                    => client[c].pc = "voter"
               /\ \A p \in DOMAIN client'[c].data \ DOMAIN client[c].data :
                    client'[c].data[p] = ActiveInArea(vn, p)
               /\ client'[c].result = "Eligible"
                    => DOMAIN client'[c].data = PositionEnum ]_vars

\* C8 witness: a check passed the portal and the voter lookup and was
\* answered AlreadyVoted
C8_Witness ==
  \E c \in Clients : Checks(c) /\ client[c].result = "AlreadyVoted"

\* C9: no step of checkEligibility changes a settings, voter, candidate or
\* vote record, and two checks of the same voting number with no settings or
\* registry operation since either arrived give the same answer.
C9_EligibilityReadOnly ==
  /\ [][ \A c \in Clients :
           (client'[c].kind = "eligibility" /\ client'[c] # client[c])
           => store' = store ]_vars
  /\ [] ( \A c \in Clients : \A d \in Clients \ {c} :
            ( /\ Checks(c) /\ Checks(d)
              /\ client[c].pc = "done" /\ client[d].pc = "done"
              /\ client[c].vn = client[d].vn
              /\ client[c].epoch = adminOps /\ client[d].epoch = adminOps )
            => /\ client[c].result = client[d].result
               /\ client[c].data = client[d].data
               /\ client[c].deadline = client[d].deadline )

\* C9 witness: two checks of one voting number were both answered with the
\* same non-empty candidate lists
C9_Witness ==
  /\ \A c \in Clients : Checks(c) /\ client[c].result = "Eligible"
  /\ client["c1"].vn = client["c2"].vn
  /\ client["c1"].data = client["c2"].data
  /\ client["c1"].data["MCA"] # {}

\* C10: a voter whose hasVoted is true keeps it true in every step.
C10_HasVotedMonotonic ==
  [][ \A vn \in DOMAIN voters :
        voters[vn].hasVoted => (vn \in DOMAIN voters' /\ voters'[vn].hasVoted) ]_vars

\* C10 witness: one voter has voted, and a voter registered with hasVoted
\* false stands beside it
C10_Witness ==
  \E vn \in DOMAIN voters : \E wn \in DOMAIN voters :
    voters[vn].hasVoted /\ ~voters[wn].hasVoted

\* ------------------------------------- a submission after a committed one
\* c1 submits a full ballot for VN1; c2 submits for VN1 once VN1 has voted;
\* the portal may be closed or opened at any time
NextLater ==
  \/ SubmitReceive("c1", "VN1", BallotThiba)
  \/ /\ voters["VN1"].hasVoted
     /\ \E b \in Ballots : SubmitReceive("c2", "VN1", b)
  \/ \E c \in Clients : SubmitStep(c)
  \/ openVotingPortal
  \/ closeVotingPortal

SpecLater == InitRace /\ [][NextLater]_vars

\* request c arrives in this step
Arrives(c) == client[c].kind = "idle" /\ client'[c].kind = "submit"

\* request c takes its portal step or its voter step
Decides(c) ==
  /\ client[c].kind = "submit" /\ client[c].pc \in {"portal", "voter"}
  /\ client'[c].pc # client[c].pc

\* the voting number of request c has committed before this step
AfterCommit(c) ==
  /\ client'[c].vn \in DOMAIN voters
  /\ voters[client'[c].vn].hasVoted

\* C11 as stated: once a voting number has committed, each step of a later
\* submitVote for it leaves the store as it is and the request is answered
\* AlreadyVoted.
C11_LaterIsAlreadyVoted ==
  [][ \A c \in Clients :
        ((Arrives(c) \/ Decides(c)) /\ AfterCommit(c))
        => /\ store' = store
           /\ client'[c].pc \in {"portal", "voter", "done"}
           /\ client'[c].pc = "done" => client'[c].result = "AlreadyVoted" ]_vars

\* C11 amended: once a voting number has committed, a later submitVote for
\* it changes nothing and is rejected: NoVotes for an empty choice set,
\* PortalClosed when voting_portal_open is false or absent, AlreadyVoted
\* otherwise.
C11_LaterIsRejected ==
  [][ \A c \in Clients :
        ((Arrives(c) \/ Decides(c)) /\ AfterCommit(c))
        => /\ store' = store
           /\ Arrives(c) =>
                IF client'[c].ballot = << >>
                  THEN client'[c].pc = "done" /\ client'[c].result = "NoVotes"
                  ELSE client'[c].pc = "portal" /\ client'[c].result = "none"
           /\ (~Arrives(c) /\ client[c].pc = "portal") =>
                IF "voting_portal_open" \notin DOMAIN settings
                   \/ ~settings["voting_portal_open"]
                  THEN client'[c].pc = "done" /\ client'[c].result = "PortalClosed"
                  ELSE client'[c].pc = "voter" /\ client'[c].result = "none"
           /\ (~Arrives(c) /\ client[c].pc = "voter") =>
                client'[c].pc = "done" /\ client'[c].result = "AlreadyVoted" ]_vars

\* C11 witness: one request committed and a later one for the same voting
\* number was answered AlreadyVoted
C11_Witness ==
  \E c \in Clients : \E d \in Clients \ {c} :
    /\ Submits(c) /\ client[c].result = "Success"
    /\ Submits(d) /\ client[d].vn = client[c].vn
    /\ client[d].result = "AlreadyVoted"

\* C12: while voting_portal_open is false after closeVotingPortal, no step
\* inserts a Vote record, raises a voteCount or sets a voter's hasVoted,
\* whichever request takes it.
C12_ClosedPortalBlocksCommit ==
  [][ ( /\ "voting_portal_open" \in DOMAIN settings
        /\ ~settings["voting_portal_open"] )
      => /\ votes' \subseteq votes
         /\ \A cid \in DOMAIN candidates \cap DOMAIN candidates' :
              candidates'[cid].voteCount <= candidates[cid].voteCount
         /\ \A vn \in DOMAIN voters \cap DOMAIN voters' :
              voters'[vn].hasVoted => voters[vn].hasVoted ]_vars

\* ------------------------------------------- reports and publication
\* portalStatus && portalStatus.value === true
StillOpen(s) == "voting_portal_open" \in DOMAIN s /\ s["voting_portal_open"] = TRUE

\* POST /results/post-election/publish arrives
PublishReceive(c) ==
  /\ CanStart(c)
  /\ client' = [client EXCEPT ![c] = [ Idle EXCEPT !.kind = "publish", !.pc = "portal" ]]
  /\ UNCHANGED << store, adminOps >>

\* publishFinalResults: the portal setting is read
PublishPortal(c) ==
  /\ client[c].kind = "publish" /\ client[c].pc = "portal"
  /\ IF StillOpen(settings)
       THEN Respond(c, "PortalOpen")
       ELSE client' = [client EXCEPT ![c].pc = "publish"]
  /\ UNCHANGED << store, adminOps >>

\* publishFinalResults: results_published is upserted to true
PublishWrite(c) ==
  /\ client[c].kind = "publish" /\ client[c].pc = "publish"
  /\ settings' = findOneAndUpdate(settings, "results_published", TRUE, TRUE)
  /\ client' = [client EXCEPT ![c].pc = "log"]
  /\ UNCHANGED << voters, candidates, votes, adminOps >>

\* publishFinalResults: the snapshot is counted and stored, then the answer
PublishLog(c) ==
  /\ client[c].kind = "publish" /\ client[c].pc = "log"
  /\ settings' = findOneAndUpdate(settings, "last_results_publication",
                   [ totalVoters |-> Cardinality(DOMAIN voters),
                     totalVotes |-> Cardinality(votes),
                     totalCandidates |-> Cardinality(DOMAIN candidates) ], TRUE)
  /\ client' = [client EXCEPT ![c].pc = "done", ![c].result = "Published"]
  /\ UNCHANGED << voters, candidates, votes, adminOps >>

\* the post-election routes of the results controller that answer with
\* election data: full-report, export/csv and export/pdf
PostElectionRoutes == {"full-report", "export/csv", "export/pdf"}

\* GET /results/post-election/<route> arrives
ReportReceive(c, route, constituency, ward) ==
  /\ CanStart(c)
  /\ client' = [client EXCEPT ![c] =
                  [ Idle EXCEPT !.kind = "report", !.pc = "portal", !.target = route,
                                !.body = [ constituency |-> constituency, ward |-> ward ] ]]
  /\ UNCHANGED << store, adminOps >>

\* the portal setting is read; the exports are built from reads only, the
\* full report goes on to its aggregates
ReportPortal(c) ==
  /\ client[c].kind = "report" /\ client[c].pc = "portal"
  /\ IF StillOpen(settings) THEN Respond(c, "PortalOpen")
     ELSE IF client[c].target = "full-report"
       THEN client' = [client EXCEPT ![c].pc = "aggregate"]
       ELSE Respond(c, "Report")
  /\ UNCHANGED << store, adminOps >>

\* GET /admin/reports/full arrives
AdminReportReceive(c) ==
  /\ CanStart(c)
  /\ client' = [client EXCEPT ![c] =
                  [ Idle EXCEPT !.kind = "report", !.pc = "counts", !.target = "admin/reports/full" ]]
  /\ UNCHANGED << store, adminOps >>

\* getFullElectionReport of the admin controller: counts, winners, answer
AdminReportRun(c) ==
  /\ client[c].kind = "report" /\ client[c].pc = "counts"
  /\ Respond(c, "Report")
  /\ UNCHANGED << store, adminOps >>

\* ------------------------------------------------ candidate administration
\* req.body of POST /candidates: a party's candidate for Governor, the same
\* with an area supplied, one for MP with a ward supplied, one for MCA that
\* copies a1, and one for MCA without a ward
AddBodies ==
  { [position |-> "Governor", politicalParty |-> "Q", constituency |-> NULL, ward |-> NULL],
    [position |-> "Governor", politicalParty |-> "Q", constituency |-> "Mwea", ward |-> "Thiba"],
    [position |-> "MP", politicalParty |-> "Q", constituency |-> "Mwea", ward |-> "Thiba"],
    [position |-> "MCA", politicalParty |-> "P", constituency |-> "Mwea", ward |-> "Thiba"],
    [position |-> "MCA", politicalParty |-> "Q", constituency |-> "Mwea", ward |-> NULL] }

\* req.body of PUT /candidates/:id: the fields the request names
UpdateBodies ==
  { [f \in {"isActive"} |-> TRUE],
    [f \in {"politicalParty"} |-> "Q"],
    [f \in {"constituency"} |-> "Mwea"],
    [f \in {"ward"} |-> "Thiba"],
    [f \in {"position"} |-> "MCA"],
    [f \in {"voteCount"} |-> 0] }

UpdateTargets == {"g1", "a2", "g0"}

\* the _id the store gives the document a request inserts
NewId(c) == IF c = "c1" THEN "n1" ELSE "n2"

\* a candidates collection without the unique index
NoCandidateIndex(cs, id, doc) == FALSE

\* the unique index on (position, politicalParty, county, constituency, ward)
\* over the documents with isActive true
ViolatesCandidateIndex(cs, id, doc) ==
  /\ doc.isActive
  /\ \E d \in DOMAIN cs \ {id} :
       /\ cs[d].isActive
       /\ cs[d].position = doc.position
       /\ cs[d].politicalParty = doc.politicalParty
       /\ cs[d].county = doc.county
       /\ cs[d].constituency = doc.constituency
       /\ cs[d].ward = doc.ward

\* Candidate.findOne(duplicateFilter), leaving out the document self
FindDuplicate(cs, self, position, party, constituency, ward) ==
  \E d \in DOMAIN cs \ {self} :
    /\ cs[d].position = position
    /\ cs[d].politicalParty = party
    /\ cs[d].county = "Kirinyaga"
    /\ cs[d].isActive
    /\ position \in {"MP", "MCA"} => cs[d].constituency = constituency
    /\ position = "MCA" => cs[d].ward = ward

\* POST /candidates arrives; the position-specific requirements
AddReceive(c, body) ==
  /\ CanStart(c)
  /\ client' = [client EXCEPT ![c] =
       [ Idle EXCEPT !.kind = "add", !.body = body,
           !.pc = IF (body.position \in {"MP", "MCA"} /\ body.constituency = NULL)
                     \/ (body.position = "MCA" /\ body.ward = NULL)
                    THEN "done" ELSE "find",
           !.result = IF body.position \in {"MP", "MCA"} /\ body.constituency = NULL
                        THEN "ConstituencyRequired"
                      ELSE IF body.position = "MCA" /\ body.ward = NULL
                        THEN "WardRequired" ELSE "none" ]]
  /\ UNCHANGED << store, adminOps >>

\* addCandidate: the duplicate lookup answers
AddFind(c) ==
  /\ client[c].kind = "add" /\ client[c].pc = "find"
  /\ LET b == client[c].body
     IN  IF FindDuplicate(candidates, NULL, b.position, b.politicalParty,
                          b.constituency, b.ward)
           THEN Respond(c, "Duplicate")
           ELSE client' = [client EXCEPT ![c].pc = "create"]
  /\ UNCHANGED << store, adminOps >>

\* addCandidate: Candidate.create, then the audit log and the answer
AddCreate(c) ==
  /\ client[c].kind = "add" /\ client[c].pc = "create"
  /\ LET b == client[c].body
         doc == Candidate(b.position, b.politicalParty,
                  IF b.position \in {"Governor", "Women Representative"}
                    THEN NULL ELSE b.constituency,
                  IF b.position = "MCA" THEN b.ward ELSE NULL)
     IN  IF ViolatesCandidateIndex(candidates, NewId(c), doc)
           THEN /\ Respond(c, "DuplicateKey")
                /\ UNCHANGED candidates
           ELSE /\ candidates' = [ d \in DOMAIN candidates \cup {NewId(c)} |->
                                     IF d = NewId(c) THEN doc ELSE candidates[d] ]
                /\ Respond(c, "Created")
  /\ UNCHANGED << settings, voters, votes, adminOps >>

\* PUT /candidates/:id arrives
UpdateReceive(c, cid, body) ==
  /\ CanStart(c)
  /\ client' = [client EXCEPT ![c] =
       [ Idle EXCEPT !.kind = "update", !.target = cid, !.body = body, !.pc = "find" ]]
  /\ UNCHANGED << store, adminOps >>

\* updateCandidate: Candidate.findById answers
UpdateFind(c) ==
  /\ client[c].kind = "update" /\ client[c].pc = "find"
  /\ IF client[c].target \notin DOMAIN candidates
       THEN Respond(c, "NotFound")
       ELSE client' = [client EXCEPT ![c].pc = "dup",
                                     ![c].doc = candidates[client[c].target]]
  /\ UNCHANGED << store, adminOps >>

\* body[field] || candidate[field]
Target(body, doc, field) ==
  IF field \in DOMAIN body THEN body[field] ELSE doc[field]

\* updateCandidate: the duplicate lookup answers
UpdateDup(c) ==
  /\ client[c].kind = "update" /\ client[c].pc = "dup"
  /\ LET b == client[c].body
         doc == client[c].doc
     IN  IF FindDuplicate(candidates, client[c].target,
                          Target(b, doc, "position"), Target(b, doc, "politicalParty"),
                          Target(b, doc, "constituency"), Target(b, doc, "ward"))
           THEN Respond(c, "Duplicate")
           ELSE client' = [client EXCEPT ![c].pc = "write"]
  /\ UNCHANGED << store, adminOps >>

\* updateCandidate: findByIdAndUpdate(id, req.body), then the audit log and
\* the answer (candidate._id of a null result throws)
UpdateWrite(c) ==
  /\ client[c].kind = "update" /\ client[c].pc = "write"
  /\ LET cid == client[c].target
         b == client[c].body
     IN  IF cid \notin DOMAIN candidates
           THEN /\ Respond(c, "TypeError")
                /\ UNCHANGED candidates
         ELSE LET doc == [ f \in DOMAIN candidates[cid] |->
                             IF f \in DOMAIN b THEN b[f] ELSE candidates[cid][f] ]
              IN  IF ViolatesCandidateIndex(candidates, cid, doc)
                    THEN /\ Respond(c, "DuplicateKey")
                         /\ UNCHANGED candidates
                    ELSE /\ candidates' = [candidates EXCEPT ![cid] = doc]
                         /\ Respond(c, "Updated")
  /\ UNCHANGED << settings, voters, votes, adminOps >>

\* the store after VN1 has cast the ballot g1, w1, m1, a1
InitCandidates ==
  /\ settings = [ k \in {"voting_portal_open", "voting_deadline"} |->
                    IF k = "voting_portal_open" THEN TRUE ELSE "" ]
  /\ adminOps = 0
  /\ voters = [ v \in {"VN1"} |-> [ Voter("Mwea", "Thiba") EXCEPT !.hasVoted = TRUE ] ]
  /\ candidates = [ d \in DOMAIN SeedCandidates |->
                      [ SeedCandidates[d] EXCEPT
                          !.voteCount = IF d = "a2" THEN 0 ELSE 1 ] ]
  /\ votes = { Vote("VN1", BallotThiba[i].position, BallotThiba[i].candidateId,
                    Voter("Mwea", "Thiba"), "c0") : i \in DOMAIN BallotThiba }
  /\ client = [ c \in Clients |-> Idle ]

NextCandidates ==
  \/ \E c \in Clients, body \in AddBodies : AddReceive(c, body)
  \/ \E c \in Clients : AddFind(c)
  \/ \E c \in Clients : AddCreate(c)
  \/ \E c \in Clients, cid \in UpdateTargets, body \in UpdateBodies :
       UpdateReceive(c, cid, body)
  \/ \E c \in Clients : UpdateFind(c)
  \/ \E c \in Clients : UpdateDup(c)
  \/ \E c \in Clients : UpdateWrite(c)
  \/ \E c \in Clients, cid \in DeleteTargets : DeleteReceive(c, cid)
  \/ \E c \in Clients : DeleteStep(c)

SpecCandidates == InitCandidates /\ [][NextCandidates]_vars

\* C14: no two active candidates have the same (position, politicalParty,
\* county, constituency, ward).
C14_ActiveCandidatesUnique ==
  \A d \in DOMAIN candidates : \A e \in DOMAIN candidates :
    ( /\ candidates[d].isActive /\ candidates[e].isActive
      /\ candidates[d].position = candidates[e].position
      /\ candidates[d].politicalParty = candidates[e].politicalParty
      /\ candidates[d].county = candidates[e].county
      /\ candidates[d].constituency = candidates[e].constituency
      /\ candidates[d].ward = candidates[e].ward )
    => d = e

\* C14 witness: two requests passed the duplicate lookup for the same seat
\* and the store refused the second write
C14_Witness ==
  \E c \in Clients : \E d \in Clients \ {c} :
    /\ client[c].kind \in {"add", "update"} /\ client[c].result = "DuplicateKey"
    /\ client[d].kind \in {"add", "update"}
    /\ client[d].result \in {"Created", "Updated"}

\* C15: every stored candidate has a constituency exactly when its position
\* is MP or MCA, and a ward exactly when its position is MCA.
C15_AreaFieldsMatchPosition ==
  \A d \in DOMAIN candidates :
    /\ candidates[d].constituency # NULL <=> candidates[d].position \in {"MP", "MCA"}
    /\ candidates[d].ward # NULL <=> candidates[d].position = "MCA"

\* C16: the candidate of every Vote record is still in the candidates
\* collection.
C16_VotedCandidateKept ==
  \A v \in votes : v.candidateId \in DOMAIN candidates

\* ------------------------------------------------------------- results
\* the candidates of an election with two contested seats
ResultCandidates ==
  [ c \in DOMAIN SeedCandidates \cup {"g2", "m2", "m3", "a3"} |->
      CASE c = "g2" -> Candidate("Governor", "Q", NULL, NULL)
        [] c = "m2" -> Candidate("MP", "Q", "Mwea", NULL)
        [] c = "m3" -> Candidate("MP", "P", "Kirinyaga Central", NULL)
        [] c = "a3" -> Candidate("MCA", "P", "Kirinyaga Central", "Thiba")
        [] OTHER -> SeedCandidates[c] ]

\* four registered voters; Thiba is a ward of Mwea and of Kirinyaga Central
ResultVoters ==
  [ vn \in {"VN1", "VN2", "VN3", "VN4"} |->
      CASE vn = "VN1" -> Voter("Mwea", "Thiba")
        [] vn = "VN2" -> Voter("Mwea", "Mwea")
        [] vn = "VN3" -> Voter("Kirinyaga Central", "Thiba")
        [] vn = "VN4" -> Voter("Mwea", "Thiba") ]

\* a voter who has not voted
NoBallot == [ p \in {} |-> "" ]

\* the ballots a voter can have committed: one eligible candidate per position
CastOptions(vn) ==
  { [ p \in PositionEnum |->
        CASE p = "Governor" -> g
          [] p = "Women Representative" -> w
          [] p = "MP" -> m
          [] p = "MCA" -> a ] :
      g \in EligibleQuery(ResultCandidates, ResultVoters[vn], "Governor"),
      w \in EligibleQuery(ResultCandidates, ResultVoters[vn], "Women Representative"),
      m \in EligibleQuery(ResultCandidates, ResultVoters[vn], "MP"),
      a \in EligibleQuery(ResultCandidates, ResultVoters[vn], "MCA") }
  \cup { NoBallot }

\* the Vote records of the committed ballots cast
CastVotes(cast) ==
  UNION { { Vote(vn, p, cast[vn][p], ResultVoters[vn], "c0") : p \in DOMAIN cast[vn] } :
            vn \in DOMAIN cast }

\* the store after the voters of cast have committed their ballots
InitResults ==
  \E cast \in [ DOMAIN ResultVoters -> UNION { CastOptions(vn) : vn \in DOMAIN ResultVoters } ] :
    /\ \A vn \in DOMAIN cast : cast[vn] \in CastOptions(vn)
    /\ voters = [ vn \in DOMAIN ResultVoters |->
                    [ ResultVoters[vn] EXCEPT !.hasVoted = (cast[vn] # NoBallot) ] ]
    /\ votes = CastVotes(cast)
    /\ candidates = [ d \in DOMAIN ResultCandidates |->
                        [ ResultCandidates[d] EXCEPT !.voteCount =
                            Cardinality({ v \in CastVotes(cast) : v.candidateId = d }) ] ]
    /\ settings = [ k \in {"voting_portal_open", "voting_deadline"} |->
                      IF k = "voting_portal_open" THEN FALSE ELSE "" ]
    /\ adminOps = 0
    /\ client = [ c \in Clients |-> Idle ]

\* the order of the strings a $sort compares
StringOrder ==
  << NULL, "Governor", "Kirinyaga Central", "MCA", "MP", "Mwea", "Thiba",
     "Women Representative" >>

Rank(order, x) == CHOOSE i \in DOMAIN order : order[i] = x

\* the orders in which the store returns documents that a $sort leaves tied
TieOrders ==
  { << "a1", "a2", "a3", "g1", "g2", "m1", "m2", "m3", "w1" >>,
    << "w1", "m3", "m2", "m1", "g2", "g1", "a3", "a2", "a1" >> }

\* $match: a filter field that is NULL is not part of the filter
Match(vs, position, constituency, ward) ==
  { v \in vs : /\ position # NULL => v.position = position
               /\ constituency # NULL => v.constituency = constituency
               /\ ward # NULL => v.ward = ward }

\* the _id of a $group stage
GroupId(v, byConstituency, byWard) ==
  [ position |-> v.position,
    constituency |-> IF byConstituency THEN v.constituency ELSE NULL,
    ward |-> IF byWard THEN v.ward ELSE NULL,
    candidateId |-> v.candidateId ]

\* $group with votes: { $sum: 1 }
Group(vs, byConstituency, byWard) ==
  { [ position |-> k.position, constituency |-> k.constituency, ward |-> k.ward,
      candidateId |-> k.candidateId,
      votes |-> Cardinality({ w \in vs : GroupId(w, byConstituency, byWard) = k }) ] :
    k \in { GroupId(v, byConstituency, byWard) : v \in vs } }

\* $sort: position ascending, the area ascending when areaKeys, votes
\* descending; documents left tied come in the order tie
Precedes(e, f, areaKeys, tie) ==
  LET pe == Rank(StringOrder, e.position)
      pf == Rank(StringOrder, f.position)
      ce == IF areaKeys THEN Rank(StringOrder, e.constituency) ELSE 0
      cf == IF areaKeys THEN Rank(StringOrder, f.constituency) ELSE 0
      we == IF areaKeys THEN Rank(StringOrder, e.ward) ELSE 0
      wf == IF areaKeys THEN Rank(StringOrder, f.ward) ELSE 0
      te == << Rank(tie, e.candidateId), Rank(StringOrder, e.constituency),
               Rank(StringOrder, e.ward) >>
      tf == << Rank(tie, f.candidateId), Rank(StringOrder, f.constituency),
               Rank(StringOrder, f.ward) >>
  IN  \/ pe < pf
      \/ pe = pf /\ ce < cf
      \/ pe = pf /\ ce = cf /\ we < wf
      \/ pe = pf /\ ce = cf /\ we = wf /\ e.votes > f.votes
      \/ pe = pf /\ ce = cf /\ we = wf /\ e.votes = f.votes /\
           ( \/ te[1] < tf[1]
             \/ te[1] = tf[1] /\ te[2] < tf[2]
             \/ te[1] = tf[1] /\ te[2] = tf[2] /\ te[3] < tf[3] )

RECURSIVE Sort(_, _, _)
Sort(S, areaKeys, tie) ==
  IF S = {} THEN << >>
  ELSE LET first == CHOOSE e \in S : \A f \in S \ {e} : Precedes(e, f, areaKeys, tie)
       IN  << first >> \o Sort(S \ {first}, areaKeys, tie)

\* results.length taken for the total
CountEntries(results) == Len(results)

\* results.reduce((sum, candidate) => sum + candidate.votes, 0)
RECURSIVE SumVotes(_)
SumVotes(results) ==
  IF results = << >> THEN 0
  ELSE results[1].votes + SumVotes(Tail(results))

\* the query parameters of the results routes
FilterConstituencies == { NULL, "Mwea", "Kirinyaga Central" }

FilterWards == { NULL, "Thiba" }

\* GET /results/position/:position arrives
PositionResultsReceive(c, position, constituency, ward) ==
  /\ CanStart(c)
  /\ client' = [client EXCEPT ![c] =
       [ Idle EXCEPT !.kind = "position-results", !.pc = "aggregate",
                     !.body = [ position |-> position, constituency |-> constituency,
                                ward |-> ward ] ]]
  /\ UNCHANGED << store, adminOps >>

\* getResultsByPosition: the aggregate answers, the candidate details are
\* joined and the total is summed
PositionResultsAggregate(c, tie) ==
  /\ client[c].kind = "position-results" /\ client[c].pc = "aggregate"
  /\ LET f == client[c].body
         results == Sort(Group(Match(votes, f.position, f.constituency, f.ward),
                               FALSE, FALSE), FALSE, tie)
     IN  client' = [client EXCEPT ![c].pc = "done", ![c].result = "Results",
                      ![c].data = [ results |-> results,
                                    totalVotes |-> SumVotes(results) ]]
  /\ UNCHANGED << store, adminOps >>

\* GET /results/constituency/:constituency arrives
ConstituencyResultsReceive(c, constituency) ==
  /\ CanStart(c)
  /\ client' = [client EXCEPT ![c] =
       [ Idle EXCEPT !.kind = "constituency-results", !.pc = "aggregate",
                     !.body = [ constituency |-> constituency ] ]]
  /\ UNCHANGED << store, adminOps >>

\* the entries of one position, in the order of the aggregate
OfPosition(sorted, position) ==
  LET IsOfPosition(e) == e.position = position
  IN  SelectSeq(sorted, IsOfPosition)

\* getResultsByConstituency: the aggregate groups by position, candidate and
\* ward; the entries are organised by position and the totals summed
ConstituencyResultsAggregate(c, tie) ==
  /\ client[c].kind = "constituency-results" /\ client[c].pc = "aggregate"
  /\ LET sorted == Sort(Group(Match(votes, NULL, client[c].body.constituency, NULL),
                              FALSE, TRUE), FALSE, tie)
         positions == { sorted[i].position : i \in DOMAIN sorted }
     IN  client' = [client EXCEPT ![c].pc = "done", ![c].result = "Results",
                      ![c].data = [ p \in positions |->
                                      [ candidates |-> OfPosition(sorted, p),
                                        totalVotes |-> SumVotes(OfPosition(sorted, p)) ] ]]
  /\ UNCHANGED << store, adminOps >>

\* the query parameters of the full report: no filter, a constituency with
\* voters, one without
ReportConstituencies == { NULL, "Mwea", "Gichugu" }

\* $lookup and $unwind: the groups whose candidate document exists
WithCandidate(groups) == { e \in groups : e.candidateId \in DOMAIN candidates }

\* array.filter(test)[0] for the entries of one area and position
First(sorted, position, constituency, ward) ==
  LET Test(e) == /\ e.position = position
                 /\ constituency # NULL => e.constituency = constituency
                 /\ ward # NULL => e.ward = ward
  IN  SelectSeq(sorted, Test)[1]

\* Voter.find({ ...filter, hasVoted })
FindVoters(vs, constituency, ward, hasVoted) ==
  { vn \in DOMAIN vs : /\ constituency # NULL => vs[vn].constituency = constituency
                       /\ ward # NULL => vs[vn].ward = ward
                       /\ vs[vn].hasVoted = hasVoted }

\* a percentage as toFixed(2) prints it, in hundredths of a percent
Number(hundredths) == [ nan |-> FALSE, hundredths |-> hundredths ]

\* the value toFixed(2) prints for 0 / 0
NaN == [ nan |-> TRUE, hundredths |-> 0 ]

\* total > 0 ? ((voted / total) * 100).toFixed(2) : 0
GuardedRate(voted, total) ==
  IF total > 0 THEN Number((voted * 20000 + total) \div (2 * total)) ELSE Number(0)

\* ((voted / total) * 100).toFixed(2)
UnguardedRate(voted, total) ==
  IF total = 0 THEN NaN ELSE Number((voted * 20000 + total) \div (2 * total))

\* the query of GET /results/live: all positions or one, with or without a
\* constituency
LiveQueries ==
  { [ position |-> q, constituency |-> k, ward |-> NULL ] :
      q \in { NULL, "MP" }, k \in { NULL, "Mwea" } }

\* GET /results/live arrives
LiveResultsReceive(c, query) ==
  /\ CanStart(c)
  /\ client' = [client EXCEPT ![c] =
       [ Idle EXCEPT !.kind = "live-results", !.pc = "aggregate", !.body = query ]]
  /\ UNCHANGED << store, adminOps >>

\* getLiveResults: one aggregate per position, then the turnout counts
LiveResultsAggregate(c, tie) ==
  /\ client[c].kind = "live-results" /\ client[c].pc = "aggregate"
  /\ LET f == client[c].body
         positions == IF f.position # NULL THEN { f.position } ELSE PositionEnum
         Tally(q) == Sort(Group(Match(votes, q, f.constituency, f.ward), FALSE, FALSE),
                          FALSE, tie)
         totalVoters == Cardinality({ vn \in DOMAIN voters : voters[vn].isActive })
         votedCount == Cardinality({ vn \in DOMAIN voters : voters[vn].hasVoted })
     IN  client' = [client EXCEPT ![c].pc = "done", ![c].result = "Results",
           ![c].data =
              [ results |-> [ q \in positions |->
                                [ candidates |-> Tally(q),
                                  totalVotes |-> SumVotes(Tally(q)) ] ],
                totalVoters |-> totalVoters,
                voted |-> votedCount,
                turnoutRate |-> GuardedRate(votedCount, totalVoters) ]]
  /\ UNCHANGED << store, adminOps >>

\* GET /results/participation arrives
ParticipationReceive(c, constituency, ward) ==
  /\ CanStart(c)
  /\ client' = [client EXCEPT ![c] =
       [ Idle EXCEPT !.kind = "participation", !.pc = "find",
                     !.body = [ constituency |-> constituency, ward |-> ward ] ]]
  /\ UNCHANGED << store, adminOps >>

\* getParticipationReport: the two voter lists and the summary
ParticipationFind(c) ==
  /\ client[c].kind = "participation" /\ client[c].pc = "find"
  /\ LET f == client[c].body
         voted == Cardinality(FindVoters(voters, f.constituency, f.ward, TRUE))
         notVoted == Cardinality(FindVoters(voters, f.constituency, f.ward, FALSE))
     IN  client' = [client EXCEPT ![c].pc = "done", ![c].result = "Report",
           ![c].data = [ totalVoters |-> voted + notVoted,
                         voted |-> voted,
                         turnoutRate |-> UnguardedRate(voted, voted + notVoted) ]]
  /\ UNCHANGED << store, adminOps >>

\* getFullElectionReport: the three aggregates, the winners of each level
\* and the participation summary
FullReportAggregate(c, tie) ==
  /\ client[c].kind = "report" /\ client[c].pc = "aggregate"
  /\ LET f == client[c].body
         scope == Match(votes, NULL, f.constituency, f.ward)
         wardResults == Sort(WithCandidate(Group(scope, TRUE, TRUE)), TRUE, tie)
         constituencyResults == Sort(WithCandidate(Group(scope, TRUE, FALSE)), TRUE, tie)
         countyResults == Sort(WithCandidate(Group(scope, FALSE, FALSE)), TRUE, tie)
         positions == { countyResults[i].position : i \in DOMAIN countyResults }
         constituencies == { constituencyResults[i].constituency :
                               i \in DOMAIN constituencyResults }
         wards == { wardResults[i].ward : i \in DOMAIN wardResults }
         voted == Cardinality(FindVoters(voters, f.constituency, f.ward, TRUE))
         notVoted == Cardinality(FindVoters(voters, f.constituency, f.ward, FALSE))
     IN  client' = [client EXCEPT ![c].pc = "done", ![c].result = "Report",
           ![c].data =
              [ county |-> [ p \in positions |-> First(countyResults, p, NULL, NULL) ],
                constituency |->
                  [ k \in constituencies |->
                      [ p \in { q \in positions :
                                  \E i \in DOMAIN constituencyResults :
                                    /\ constituencyResults[i].constituency = k
                                    /\ constituencyResults[i].position = q } |->
                          First(constituencyResults, p, k, NULL) ] ],
                ward |->
                  [ w \in wards |->
                      [ p \in { q \in positions :
                                  \E i \in DOMAIN wardResults :
                                    /\ wardResults[i].ward = w
                                    /\ wardResults[i].position = q } |->
                          First(wardResults, p, NULL, w) ] ],
                totalVoters |-> voted + notVoted,
                voted |-> voted,
                overallTurnout |-> UnguardedRate(voted, voted + notVoted) ]]
  /\ UNCHANGED << store, adminOps >>

NextResults ==
  \/ \E p \in PositionEnum, k \in FilterConstituencies, w \in FilterWards :
       PositionResultsReceive("c1", p, k, w)
  \/ \E tie \in TieOrders : PositionResultsAggregate("c1", tie)
  \/ \E k \in FilterConstituencies \ {NULL} : ConstituencyResultsReceive("c1", k)
  \/ \E tie \in TieOrders : ConstituencyResultsAggregate("c1", tie)
  \/ \E k \in ReportConstituencies, w \in FilterWards :
       ReportReceive("c1", "full-report", k, w)
  \/ ReportPortal("c1")
  \/ \E tie \in TieOrders : FullReportAggregate("c1", tie)
  \/ \E query \in LiveQueries : LiveResultsReceive("c1", query)
  \/ \E tie \in TieOrders : LiveResultsAggregate("c1", tie)
  \/ \E k \in ReportConstituencies : ParticipationReceive("c1", k, NULL)
  \/ ParticipationFind("c1")

SpecResults == InitResults /\ [][NextResults]_vars

\* C17: the tally of getResultsByPosition has one entry per candidate with a
\* matching Vote record, each with the number of that candidate's matching
\* records, in non-increasing order of votes, and totalVotes is the number of
\* matching records.
C17_PositionTally ==
  \A c \in Clients :
    (client[c].kind = "position-results" /\ client[c].pc = "done")
    => LET f == client[c].body
           matching == { v \in votes :
                           /\ v.position = f.position
                           /\ f.constituency # NULL => v.constituency = f.constituency
                           /\ f.ward # NULL => v.ward = f.ward }
           results == client[c].data.results
       IN  /\ { results[i].candidateId : i \in DOMAIN results }
                = { v.candidateId : v \in matching }
           /\ \A i \in DOMAIN results : \A j \in DOMAIN results :
                /\ results[i].candidateId = results[j].candidateId => i = j
                /\ i < j => results[i].votes >= results[j].votes
           /\ \A i \in DOMAIN results :
                results[i].votes =
                  Cardinality({ v \in matching : v.candidateId = results[i].candidateId })
           /\ client[c].data.totalVotes = Cardinality(matching)

\* C17 witness: a tally under a ward filter that ranks two candidates with
\* different counts
C17_Witness ==
  \E c \in Clients :
    /\ client[c].kind = "position-results" /\ client[c].pc = "done"
    /\ client[c].body.ward # NULL
    /\ Len(client[c].data.results) >= 2
    /\ client[c].data.results[1].votes > client[c].data.results[2].votes

\* C18: the tally of a constituency gives each candidate of a position one
\* entry, whose votes is the number of Vote records of the constituency for
\* that position and candidate, and ranks the entries by that number.
C18_ConstituencyTally ==
  \A c \in Clients :
    (client[c].kind = "constituency-results" /\ client[c].pc = "done")
    => \A p \in DOMAIN client[c].data :
         LET entries == client[c].data[p].candidates
             raw == { v \in votes : /\ v.constituency = client[c].body.constituency
                                    /\ v.position = p }
         IN  /\ \A i \in DOMAIN entries : \A j \in DOMAIN entries :
                  /\ entries[i].candidateId = entries[j].candidateId => i = j
                  /\ i < j => entries[i].votes >= entries[j].votes
             /\ \A i \in DOMAIN entries :
                  entries[i].votes =
                    Cardinality({ v \in raw : v.candidateId = entries[i].candidateId })

\* ------------------------------------ reports and publication, together
NextPublish ==
  \/ \E c \in Clients : PublishReceive(c)
  \/ \E c \in Clients : PublishPortal(c)
  \/ \E c \in Clients : PublishWrite(c)
  \/ \E c \in Clients : PublishLog(c)
  \/ \E c \in Clients, route \in PostElectionRoutes : ReportReceive(c, route, NULL, NULL)
  \/ \E c \in Clients : ReportPortal(c)
  \/ \E c \in Clients, tie \in TieOrders : FullReportAggregate(c, tie)
  \/ \E c \in Clients : AdminReportReceive(c)
  \/ \E c \in Clients : AdminReportRun(c)
  \/ initializeSystem
  \/ openVotingPortal
  \/ closeVotingPortal
  \/ \E value \in BOOLEAN : updateSystemSettings(value)

SpecPublish == Init /\ [][NextPublish]_vars

\* C13: while voting_portal_open is present and true, a step of a
\* full-report, export or publish request changes no setting, and the answer
\* it gives is the refusal.
C13_NoClosingActionWhileOpen ==
  [][ \A c \in Clients :
        ( /\ client[c].kind \in {"publish", "report"}
          /\ client'[c] # client[c]
          /\ "voting_portal_open" \in DOMAIN settings
          /\ settings["voting_portal_open"] )
        => /\ settings' = settings
           /\ client'[c].pc = "done" => client'[c].result = "PortalOpen" ]_vars

\* the number of Vote records of an area and position for a candidate
CountFor(vs, candidateId) == Cardinality({ v \in vs : v.candidateId = candidateId })

\* candidateId has the most Vote records of the set vs
Maximal(vs, candidateId) ==
  \A v \in vs : CountFor(vs, candidateId) >= CountFor(vs, v.candidateId)

\* C19: the winner the full report gives for a position at county,
\* constituency and ward level has the most Vote records of that position in
\* that area, the ward taken together with its constituency.
C19_WinnersAreMaximal ==
  \A c \in Clients :
    (client[c].kind = "report" /\ client[c].target = "full-report"
       /\ client[c].result = "Report")
    => LET f == client[c].body
           scope == { v \in votes :
                        /\ f.constituency # NULL => v.constituency = f.constituency
                        /\ f.ward # NULL => v.ward = f.ward }
           winners == client[c].data
       IN  \A v \in scope :
             /\ v.position \in DOMAIN winners.county
             /\ Maximal({ w \in scope : w.position = v.position },
                        winners.county[v.position].candidateId)
             /\ v.constituency \in DOMAIN winners.constituency
             /\ v.position \in DOMAIN winners.constituency[v.constituency]
             /\ Maximal({ w \in scope : /\ w.position = v.position
                                        /\ w.constituency = v.constituency },
                        winners.constituency[v.constituency][v.position].candidateId)
             /\ v.ward \in DOMAIN winners.ward
             /\ v.position \in DOMAIN winners.ward[v.ward]
             /\ Maximal({ w \in scope : /\ w.position = v.position
                                        /\ w.constituency = v.constituency
                                        /\ w.ward = v.ward },
                        winners.ward[v.ward][v.position].candidateId)

\* C20: a reported turnout rate is 100 * voted / total of the voters in
\* scope, zero when there is no voter in scope, and at most 100.
C20_TurnoutRate ==
  \A c \in Clients :
    (client[c].pc = "done" /\ client[c].result \in {"Results", "Report"})
    => /\ "turnoutRate" \in DOMAIN client[c].data =>
            LET total == client[c].data.totalVoters
                voted == client[c].data.voted
                rate == client[c].data.turnoutRate
            IN  /\ ~rate.nan
                /\ rate.hundredths <= 10000
                /\ rate.hundredths =
                     IF total = 0 THEN 0 ELSE (voted * 20000 + total) \div (2 * total)
       /\ "overallTurnout" \in DOMAIN client[c].data =>
            LET total == client[c].data.totalVoters
                voted == client[c].data.voted
                rate == client[c].data.overallTurnout
            IN  /\ ~rate.nan
                /\ rate.hundredths <= 10000
                /\ rate.hundredths =
                     IF total = 0 THEN 0 ELSE (voted * 20000 + total) \div (2 * total)

\* ------------------------------------ what follows the commit of a ballot
\* the choices of BallotThiba in the opposite order
BallotReversed == [ i \in 1..4 |-> BallotThiba[5 - i] ]

\* two voters of Mwea / Thiba; the portal is open
InitNotify ==
  /\ settings = [ k \in {"voting_portal_open", "voting_deadline"} |->
                    IF k = "voting_portal_open" THEN TRUE ELSE "" ]
  /\ adminOps = 0
  /\ voters = [ v \in {"VN1", "VN2"} |-> Voter("Mwea", "Thiba") ]
  /\ candidates = SeedCandidates
  /\ votes = {}
  /\ client = [ c \in Clients |-> Idle ]

\* c1 submits for VN1, then c2 for VN2; the mail transport and the audit
\* log may fail
NextNotify ==
  \/ \E b \in {BallotThiba, BallotReversed} : SubmitReceive("c1", "VN1", b)
  \/ /\ client["c1"].kind = "submit" /\ client["c1"].pc = "done"
     /\ SubmitReceive("c2", "VN2", BallotThiba)
  \/ \E c \in Clients : SubmitCommit(c)
  \/ \E c \in Clients, sent \in BOOLEAN : SubmitEmail(c, sent)
  \/ \E c \in Clients, logged \in BOOLEAN : SubmitAudit(c, logged)

SpecNotify == InitNotify /\ [][NextNotify]_vars

\* C21: once voter.save() has committed the ballot, the steps that follow
\* (confirmation email, audit entry, broadcast) leave the store as it is
\* whether they fail or not, and the request is answered Success.
C21_NotificationFailureKeepsCommit ==
  [][ \A c \in Clients :
        ( /\ client[c].kind = "submit"
          /\ client[c].pc \in {"email", "audit"}
          /\ client'[c] # client[c] )
        => /\ store' = store
           /\ voters[client[c].vn].hasVoted
           /\ Cardinality({ v \in votes : v.rid = c }) = 4
           /\ client'[c].pc \in {"audit", "done"}
           /\ client'[c].pc = "done" => client'[c].result = "Success" ]_vars

\* C21 witness: a request answered Success whose email and audit entry both
\* failed; its four Vote records and hasVoted are in the store
C21_Witness ==
  \E c \in Clients :
    /\ client[c].kind = "submit" /\ client[c].result = "Success"
    /\ client[c].email = "failed" /\ client[c].audit = << >>
    /\ voters[client[c].vn].hasVoted
    /\ Cardinality({ v \in votes : v.rid = c }) = 4

\* both requests have logged an audit entry and emitted a broadcast event
BothLogged(c, d) ==
  /\ client[c].audit # << >> /\ client[d].audit # << >>
  /\ client[c].emitted # << >> /\ client[d].emitted # << >>
  /\ voters[client[c].vn].constituency = voters[client[d].vn].constituency
  /\ voters[client[c].vn].ward = voters[client[d].vn].ward

\* C22 as stated: the audit entry and the broadcast event of a successful
\* submission carry constituency, ward and the list of positions only, and
\* the events of two voters of one constituency and ward are identical.
C22_EventsAreIdentical ==
  /\ \A c \in Clients :
       /\ client[c].audit # << >> =>
            DOMAIN client[c].audit[1].details = {"constituency", "ward", "positions"}
       /\ client[c].emitted # << >> =>
            DOMAIN client[c].emitted[1] = {"constituency", "ward"}
  /\ \A c \in Clients : \A d \in Clients :
       BothLogged(c, d)
       => /\ client[c].audit = client[d].audit
          /\ client[c].emitted = client[d].emitted

\* C22 amended: the audit entry and the broadcast event of a successful
\* submission carry constituency, ward and the list of positions only, with
\* no admin or entity id; the events of two voters of one constituency and
\* ward agree on constituency and ward and name the same positions, in the
\* order in which each ballot listed them.
C22_EventsCarryNoIdentity ==
  /\ \A c \in Clients :
       /\ client[c].audit # << >> =>
            LET entry == client[c].audit[1]
            IN  /\ DOMAIN entry.details = {"constituency", "ward", "positions"}
                /\ entry.adminId = NULL /\ entry.entityId = NULL
                /\ entry.details.constituency = voters[client[c].vn].constituency
                /\ entry.details.ward = voters[client[c].vn].ward
                /\ entry.details.positions =
                     [ i \in DOMAIN client[c].ballot |-> client[c].ballot[i].position ]
       /\ client[c].emitted # << >> =>
            /\ DOMAIN client[c].emitted[1] = {"constituency", "ward"}
            /\ client[c].emitted[1].constituency = voters[client[c].vn].constituency
            /\ client[c].emitted[1].ward = voters[client[c].vn].ward
  /\ \A c \in Clients : \A d \in Clients :
       BothLogged(c, d)
       => /\ client[c].emitted = client[d].emitted
          /\ client[c].audit[1].details.constituency
               = client[d].audit[1].details.constituency
          /\ client[c].audit[1].details.ward = client[d].audit[1].details.ward
          /\ { client[c].audit[1].details.positions[i] :
                 i \in DOMAIN client[c].audit[1].details.positions }
             = { client[d].audit[1].details.positions[i] :
                   i \in DOMAIN client[d].audit[1].details.positions }

\* C22 witness: two voters of Mwea / Thiba have voted with ballots in
\* different orders and both audit entries were logged
C22_Witness ==
  /\ client["c1"].result = "Success" /\ client["c2"].result = "Success"
  /\ client["c1"].audit # << >> /\ client["c2"].audit # << >>
  /\ client["c1"].vn # client["c2"].vn
  /\ client["c1"].ballot # client["c2"].ballot

\* C23: the Vote store is append-only: every Vote record of the store is in
\* the store, with the same votingNumber, position, candidateId and area
\* fields, after each step of every operation.
C23_VotesAppendOnly ==
  [][ \A v \in votes : v \in votes' ]_vars

\* C23 witness: a candidate named by a Vote record has gone through
\* deleteCandidate and the record is still in the store
C23_Witness ==
  \E c \in Clients :
    /\ client[c].kind = "delete" /\ client[c].pc = "done"
    /\ client[c].result \in {"Deactivated", "Deleted"}
    /\ \E v \in votes : v.candidateId = client[c].target

\* C24: a submission whose choice set is empty, names a position twice or
\* omits a required position is rejected before submitVote reads or writes
\* the store: it is answered on arrival, with the structural failure kind,
\* whatever the portal setting and whatever the voting number.
C24_StructureBeforeStore ==
  \A c \in Clients :
    LET b == client[c].ballot
        structural ==
          \/ b = << >>
          \/ \E i \in DOMAIN b : \E j \in DOMAIN b :
               i # j /\ b[i].position = b[j].position
          \/ \E p \in PositionEnum : \A i \in DOMAIN b : b[i].position # p
    IN  (client[c].kind = "submit" /\ structural)
        => /\ client[c].pc = "done"
           /\ client[c].result \in {"NoVotes", "DuplicatePosition", "MissingPosition"}

\* ------------------------------- the two eligibility tests, side by side
\* candidate documents the store can hold: any position of the enum, the
\* default county or another one, an area of the county or none, active or not
CandidateDocs ==
  { [ Candidate(p, "Q", a[1], a[2]) EXCEPT !.county = k, !.isActive = act ] :
      p \in PositionEnum, k \in {"Kirinyaga", "Nairobi"},
      a \in { << NULL, NULL >>, << "Mwea", NULL >>, << "Mwea", "Thiba" >>,
              << "Mwea", "Mwea" >>, << "Gichugu", NULL >> },
      act \in BOOLEAN }

\* the voters the two tests are applied to
EligibleVoters == { Voter("Mwea", "Thiba"), Voter("Gichugu", "Ngariama") }

\* BallotThiba with candidate x1 as the choice for position p
BallotWith(p) ==
  [ i \in 1..4 |-> IF BallotThiba[i].position = p
                     THEN Choice(p, "x1") ELSE BallotThiba[i] ]

\* the seed candidates and one more document x1; one voter; the portal is open
InitEligible ==
  /\ settings = [ k \in {"voting_portal_open", "voting_deadline"} |->
                    IF k = "voting_portal_open" THEN TRUE ELSE "" ]
  /\ adminOps = 0
  /\ \E voter \in EligibleVoters : voters = [ v \in {"VN1"} |-> voter ]
  /\ \E doc \in CandidateDocs :
       candidates = [ c \in DOMAIN SeedCandidates \cup {"x1"} |->
                        IF c = "x1" THEN doc ELSE SeedCandidates[c] ]
  /\ votes = {}
  /\ client = [ c \in Clients |-> Idle ]

\* c1 asks for the eligible candidates of VN1, or submits a ballot that
\* names x1 for one position
NextEligible ==
  \/ EligibilityReceive("c1", "VN1")
  \/ EligibilityStep("c1")
  \/ \E p \in PositionEnum : SubmitReceive("c1", "VN1", BallotWith(p))
  \/ SubmitStep("c1")

SpecEligible == InitEligible /\ [][NextEligible]_vars

\* C25: for every candidate of the store, every voter and every position,
\* isCandidateEligible together with the active check accepts the candidate
\* exactly when getEligibleCandidates lists it under that position; a choice
\* that submitVote has validated is one checkEligibility would list, and a
\* choice it has refused is one checkEligibility would not list.
C25_EligibilityAgrees ==
  /\ \A cid \in DOMAIN candidates : \A vn \in DOMAIN voters :
       \A p \in PositionEnum \cup {"Senator"} :
         (candidates[cid].isActive
            /\ isCandidateEligible(candidates[cid], voters[vn], p))
         <=> (p \in PositionEnum
                /\ cid \in EligibleQuery(candidates, voters[vn], p))
  /\ \A c \in Clients :
       client[c].kind = "submit" =>
         \A i \in DOMAIN client[c].task :
           LET choice == client[c].ballot[i]
               listed == choice.candidateId \in
                           EligibleQuery(candidates, voters[client[c].vn],
                                         choice.position)
           IN  /\ client[c].task[i] \in {"create", "inc", "done", "DuplicateKey"}
                    => listed
               /\ client[c].task[i] \in {"InvalidCandidate", "IneligibleCandidate"}
                    => ~listed

\* C25 witness: x1 is of another county; a submission that names it for
\* Governor was refused and another candidate of the ballot was validated
C25_Witness ==
  /\ candidates["x1"].position = "Governor"
  /\ candidates["x1"].county = "Nairobi" /\ candidates["x1"].isActive
  /\ \E c \in Clients :
       /\ client[c].kind = "submit"
       /\ \E i \in DOMAIN client[c].task :
            /\ client[c].ballot[i] = Choice("Governor", "x1")
            /\ client[c].task[i] = "IneligibleCandidate"
       /\ \E i \in DOMAIN client[c].task : client[c].task[i] = "done"

\* C26: no Vote record is inserted whose candidate, at the moment of the
\* insertion, is missing or inactive, has another position than the record,
\* or lies outside the voter's area; a choice for an MCA candidate of
\* another ward is refused as IneligibleCandidate.
C26_InsertedCandidateEligible ==
  [][ /\ \A v \in votes' \ votes :
           /\ v.candidateId \in DOMAIN candidates
           /\ candidates[v.candidateId].isActive
           /\ candidates[v.candidateId].position = v.position
           /\ v.position \in {"Governor", "Women Representative"}
                => candidates[v.candidateId].county = v.county
           /\ v.position \in {"MP", "MCA"}
                => candidates[v.candidateId].constituency = v.constituency
           /\ v.position = "MCA" => candidates[v.candidateId].ward = v.ward
      /\ \A c \in Clients :
           client[c].kind = "submit" =>
             \A i \in DOMAIN client[c].task :
               LET choice == client[c].ballot[i]
               IN  ( /\ choice.position = "MCA"
                     /\ client[c].task[i] = "find"
                     /\ client'[c].task[i] # "find"
                     /\ choice.candidateId \in DOMAIN candidates
                     /\ candidates[choice.candidateId].isActive
                     /\ candidates[choice.candidateId].ward
                          # voters[client[c].vn].ward )
                   => client'[c].task[i] = "IneligibleCandidate" ]_vars

\* C27: whenever no submission is in flight, the voteCount of each candidate
\* equals the number of Vote records that name it.
C27_VoteCountMatchesVotes ==
  (\A c \in Clients : client[c].kind = "submit" => ~InFlight(c))
  => \A cid \in DOMAIN candidates :
       candidates[cid].voteCount
         = Cardinality({ v \in votes : v.candidateId = cid })

\* ------------------------------------------- a retry after a failed attempt
\* c1 submits for VN1 and is rejected or fails; once c1 and its promises
\* have settled and VN1 has not voted, c2 submits a full valid ballot for VN1
NextRetry ==
  \/ \E b \in {BallotMwea, BallotMissing, BallotThiba} :
       SubmitReceive("c1", "VN1", b)
  \/ /\ client["c1"].kind = "submit" /\ ~InFlight("c1")
     /\ client["c1"].result # "Success"
     /\ ~voters["VN1"].hasVoted
     /\ SubmitReceive("c2", "VN1", BallotThiba)
  \/ \E c \in Clients : SubmitStep(c)
  \/ SaveStoreFault("c1")

SpecRetry == InitRace /\ [][NextRetry]_vars

\* C28: a voter is not locked out by a failed attempt: a submission that
\* arrives while the portal is open, its voter is active and has not voted,
\* no other request for the voting number is in flight, and that makes four
\* valid, eligible choices, is answered Success and commits, whatever
\* earlier submissions for the number were rejected or failed.
C28_RetrySucceeds ==
  (client["c2"].kind = "submit" /\ client["c2"].pc = "done")
  => /\ client["c2"].result = "Success"
     /\ voters["VN1"].hasVoted

\* ------------------------------------------ publication, then the portal
\* the settings after the initialisation script: the portal is closed
InitReopen ==
  /\ settings = [ k \in {"voting_portal_open", "voting_deadline"} |->
                    IF k = "voting_portal_open" THEN FALSE ELSE "" ]
  /\ adminOps = 0
  /\ voters = [ v \in {"VN1"} |-> Voter("Mwea", "Thiba") ]
  /\ candidates = SeedCandidates
  /\ votes = {}
  /\ client = [ c \in Clients |-> Idle ]

\* an administrator publishes the results and opens or closes the portal;
\* c1 submits a full ballot for VN1
NextReopen ==
  \/ PublishReceive("c2")
  \/ PublishPortal("c2")
  \/ PublishWrite("c2")
  \/ PublishLog("c2")
  \/ openVotingPortal
  \/ closeVotingPortal
  \/ SubmitReceive("c1", "VN1", BallotThiba)
  \/ SubmitStep("c1")

SpecReopen == InitReopen /\ [][NextReopen]_vars

\* C29: once publishFinalResults has set results_published to true, no step
\* inserts a Vote record or changes a voteCount, voting_portal_open is not
\* true, and a submitVote that reads the portal setting is rejected there.
C29_PublishedIsFinal ==
  [][ ( /\ "results_published" \in DOMAIN settings
        /\ settings["results_published"] = TRUE )
      => /\ votes' = votes
         /\ \A cid \in DOMAIN candidates :
              /\ cid \in DOMAIN candidates'
              /\ candidates'[cid].voteCount = candidates[cid].voteCount
         /\ ~ ( /\ "voting_portal_open" \in DOMAIN settings
                /\ settings["voting_portal_open"] = TRUE )
         /\ \A c \in Clients :
              ( /\ client[c].kind = "submit" /\ client[c].pc = "portal"
                /\ client'[c].pc # "portal" )
              => client'[c].pc = "done" /\ client'[c].result = "PortalClosed" ]_vars

\* C30: whenever openVotingPortal answers success, the setting
\* voting_portal_open exists with value true after the call (so that the
\* portal check of checkEligibility and submitVote passes), also when the
\* setting was absent before the call.
C30_OpenedPortalIsOpen ==
  [][ openVotingPortal
      => /\ "voting_portal_open" \in DOMAIN settings'
         /\ settings'["voting_portal_open"] = TRUE
         /\ ~PortalClosed(settings') ]_vars

====
